---------------------------- MODULE Spec2Model ----------------------------
(***************************************************************************)
(* GeoPulse: the globe dashboard (App, Globe3D, InfoPanel, geminiService). *)
(*                                                                         *)
(* Numbers.  JavaScript numbers are modelled by integers in fixed point:   *)
(*   - growth rates are in hundredths of a percent (0.5% is 50);           *)
(*   - gradient positions and normalised scalars are in millionths;        *)
(*   - altitudes are in hundredths (0.3 is 30), alpha in hundredths;       *)
(*   - history values are truncated to whole units after each division.    *)
(* Strings that the code parses (hex colours) are sequences of one         *)
(* character strings; strings it only compares or passes on are strings.   *)
(* null is Null; a missing property (undefined) is Undefined.              *)
(***************************************************************************)
EXTENDS Integers, Sequences, FiniteSets, TLC

VARIABLES
    initPc,          \* App.initData: "fetch" | "json" | "done"
    data,            \* App: useState data (the entity catalog)
    features,        \* App: useState features (the polygon set)
    selectedCountry, \* App: useState selectedCountry
    mode,            \* App: useState mode
    isLoading,       \* App: useState isLoading
    hoverD,          \* Globe3D: useState hoverD
    dimensions,      \* Globe3D: useState dimensions
    webGLSupported,  \* Globe3D: useState webGLSupported
    probed,          \* Globe3D: the mount effect has run
    hasError,        \* GlobeErrorBoundary: state.hasError
    insight,         \* InfoPanel: useState insight
    loading,         \* InfoPanel: useState loading
    effectDeps,      \* InfoPanel: the [countryName, stats] the live effect ran with
    fetches,         \* InfoPanel: the fetchInsight calls still in flight
    apiKey,          \* geminiService: process.env.API_KEY || ''
    call             \* a call of a module-level function: arguments, result

vars == <<initPc, data, features, selectedCountry, mode, isLoading, hoverD,
          dimensions, webGLSupported, probed, hasError, insight, loading,
          effectDeps, fetches, apiKey, call>>

Null == [null |-> TRUE]
Undefined == "undefined"

-----------------------------------------------------------------------------
(* Bounds of the model *)

\* Math.random() is a seeded generator: one stream per seed 0..MaxSeed.
MaxSeed == 1
\* fetchInsight calls that may be in flight at once.
MaxInFlight == 2
\* Entities ranked on their own, and the metric values 1..MaxMetric they take.
MaxEntities == 3
MaxMetric == 2
\* Years asked of generateHistory on its own.
MaxYears == 4
\* Stops of a gradient passed to getGradientColor on its own.
MaxStops == 4

-----------------------------------------------------------------------------
(* Arithmetic helpers *)

Min(a, b) == IF a <= b THEN a ELSE b
Max(a, b) == IF a >= b THEN a ELSE b

RECURSIVE SumSeq(_)
SumSeq(s) == IF s = <<>> THEN 0 ELSE Head(s) + SumSeq(Tail(s))

\* floor(a * m / d) for 0 <= a, 0 < d, without leaving 32 bits
MulDiv(a, m, d) == (a \div d) * m + ((a % d) * m) \div d

-----------------------------------------------------------------------------
(* The boundary document: features of the fetched GeoJSON *)

\* A feature as the code reads it: properties.ADMIN and an opaque geometry.
\* ADMIN is Undefined for a feature that carries no administrative name.
Feature(name, geom) == [properties |-> [ADMIN |-> name], geometry |-> geom]

\* One feature per administrative name, as in the Natural Earth admin-0
\* collection behind GEOJSON_URL, and one feature without a name.
FeatureUniverse ==
    << Feature("China", 1), Feature("Fiji", 2), Feature(Undefined, 3) >>

RECURSIVE SubSeqs(_)
SubSeqs(s) ==
    IF s = <<>> THEN { <<>> }
    ELSE LET rest == SubSeqs(Tail(s))
         IN  rest \cup { <<Head(s)>> \o r : r \in rest }

\* The feature collections res.json() may resolve to.
Documents == SubSeqs(FeatureUniverse)

\* name.split('') with charCodeAt(0) of each character
CharCodes(name) ==
    CASE name = "China"   -> <<67, 104, 105, 110, 97>>
      [] name = "Fiji"    -> <<70, 105, 106, 105>>
      [] name = "Fjii"    -> <<70, 106, 105, 105>>
      [] name = "Peru"    -> <<80, 101, 114, 117>>

-----------------------------------------------------------------------------
(* generateHistory *)

CurrentYear == 2026
HistoryYears == 10

\* Math.random() of stream `seed`, k-th draw, as an integer in 0..199
\* (the unit interval in steps of 1/200).
Random(seed, k) == (seed * 97 + k * k * 31 + k * 17 + 5) % 200

\* (Math.random() - 0.5) * 0.02 in units of 1/10000
Fluctuation(seed, k) == Random(seed, k) - 100

\* The loop of generateHistory; `off` random draws were made before the call.
RECURSIVE HistoryLoop(_, _, _, _, _, _, _)
HistoryLoop(history, val, i, growthRate, years, seed, off) ==
    IF i >= years THEN history
    ELSE HistoryLoop(
           <<[year |-> CurrentYear - i, value |-> val]>> \o history,
           MulDiv(val, 10000, 10000 + growthRate + Fluctuation(seed, off + i + 1)),
           i + 1, growthRate, years, seed, off)

\* Variant: the value is projected back once before the first point is
\* recorded.
generateHistoryProjectsFirst(currentValue, growthRate, years, seed, off) ==
    HistoryLoop(<<>>,
                MulDiv(currentValue, 10000,
                       10000 + growthRate + Fluctuation(seed, off + 1)),
                0, growthRate, years, seed, off + 1)

generateHistory(currentValue, growthRate, years, seed, off) ==
    HistoryLoop(<<>>, currentValue, 0, growthRate, years, seed, off)

-----------------------------------------------------------------------------
(* getMajorEconomiesData *)

MajorNames ==
    << "United States of America", "China", "India", "Germany",
       "United Kingdom", "France", "Japan", "Brazil", "Russia", "Canada",
       "Australia", "South Korea" >>

BaseStats(p, g, pg, gg) ==
    [population |-> p, gdpPerCapita |-> g, popGrowth |-> pg, gdpGrowth |-> gg]

baseData ==
    << BaseStats(331000000, 70000, 50, 210),
       BaseStats(1400000000, 12500, -10, 500),
       BaseStats(1380000000, 2200, 90, 720),
       BaseStats(83000000, 50000, 10, 180),
       BaseStats(67000000, 46000, 40, 150),
       BaseStats(65000000, 43000, 30, 170),
       BaseStats(125000000, 39000, -30, 120),
       BaseStats(212000000, 7500, 70, 290),
       BaseStats(144000000, 10000, -20, 150),
       BaseStats(38000000, 52000, 80, 230),
       BaseStats(25000000, 51000, 110, 300),
       BaseStats(51000000, 31000, 10, 250) >>

MajorIndex(name) == CHOOSE i \in 1..Len(MajorNames) : MajorNames[i] = name

IsMajor(name) == \E i \in 1..Len(MajorNames) : MajorNames[i] = name

\* A full record: the base stats and the two back-projected series, which
\* take 2 * HistoryYears draws starting after `off`.
WithHistory(b, seed, off) ==
    [population |-> b.population, gdpPerCapita |-> b.gdpPerCapita,
     popGrowth |-> b.popGrowth, gdpGrowth |-> b.gdpGrowth,
     history |->
       [population |-> generateHistory(b.population, b.popGrowth,
                                       HistoryYears, seed, off),
        gdp |-> generateHistory(b.gdpPerCapita, b.gdpGrowth,
                                HistoryYears, seed, off + HistoryYears)]]

\* result[key] of getMajorEconomiesData: entries are built in baseData order.
getMajorEconomiesData(name, seed) ==
    LET i == MajorIndex(name)
    IN  WithHistory(baseData[i], seed, (i - 1) * 2 * HistoryYears)

-----------------------------------------------------------------------------
(* initData: the synthetic branch and the rankings *)

\* Math.sin(k) * 10000 - Math.floor(Math.sin(k) * 10000), in units of 1e-8,
\* for the arguments the names of CharCodes lead to.
SinFraction(k) ==
    CASE k = 387 -> 48171885
      [] k = 388 -> 88540565
      [] k = 389 -> 42893722
      [] k = 390 -> 9910518
      [] k = 413 -> 23759758
      [] k = 414 -> 85236864
      [] k = 415 -> 39330837
      [] k = 416 -> 25549876

seedOf(name) == SumSeq(CharCodes(name))

rand(name, n) == SinFraction(seedOf(name) + n)

\* Number(x.toFixed(2)) of a value given in units of 1e-8 percent, in
\* hundredths of a percent
ToFixed2(x) == (x + 500000) \div 1000000

\* The four generated base stats of a name that is not in majorData.
SyntheticStats(name) ==
    BaseStats(1000000 + MulDiv(rand(name, 1), 8, 10),
              1000 + MulDiv(rand(name, 2), 3, 10000),
              ToFixed2(rand(name, 3) * 3 - 50000000),
              ToFixed2(rand(name, 4) * 8 - 200000000))

\* name.split('') of a feature without ADMIN raises a TypeError.
FeatureThrows(feat) == feat.properties.ADMIN = Undefined

BuildThrows(feats) == \E i \in 1..Len(feats) : FeatureThrows(feats[i])

\* Names of feats[1..i] that took the synthetic branch
SyntheticBefore(feats, i) ==
    Cardinality({ j \in 1..(i - 1) : ~IsMajor(feats[j].properties.ADMIN) })

\* Variant: the population of a synthetic entry is drawn from Math.random().
EntryForRandomBase(feats, i, seed) ==
    LET name == feats[i].properties.ADMIN
        off == (Len(MajorNames) + SyntheticBefore(feats, i)) * 2 * HistoryYears
        b == SyntheticStats(name)
    IN  IF IsMajor(name)
        THEN getMajorEconomiesData(name, seed)
        ELSE WithHistory(BaseStats(1000000 + Random(seed, off + 1) * 400000,
                                   b.gdpPerCapita, b.popGrowth, b.gdpGrowth),
                         seed, off + 1)

\* fullData[name] as the forEach of initData leaves it (ranks not yet set)
EntryFor(feats, i, seed) ==
    LET name == feats[i].properties.ADMIN
    IN  IF IsMajor(name)
        THEN getMajorEconomiesData(name, seed)
        ELSE WithHistory(SyntheticStats(name), seed,
                         (Len(MajorNames) + SyntheticBefore(feats, i))
                            * 2 * HistoryYears)

\* Object.keys(fullData): keys in order of first insertion
RECURSIVE KeysOf(_, _)
KeysOf(feats, i) ==
    IF i = 0 THEN <<>>
    ELSE LET before == KeysOf(feats, i - 1)
             name == feats[i].properties.ADMIN
         IN  IF \E j \in 1..Len(before) : before[j] = name
             THEN before ELSE Append(before, name)

\* Array.prototype.sort with the comparator (a, b) => val(b) - val(a):
\* descending and stable.
\* Variant: the comparator is (a, b) => val(a) - val(b).
RECURSIVE InsertDescAscending(_, _, _)
InsertDescAscending(sorted, x, val) ==
    IF sorted = <<>> THEN <<x>>
    ELSE IF val[Head(sorted)] <= val[x]
         THEN <<Head(sorted)>> \o InsertDescAscending(Tail(sorted), x, val)
         ELSE <<x>> \o sorted

RECURSIVE InsertDesc(_, _, _)
InsertDesc(sorted, x, val) ==
    IF sorted = <<>> THEN <<x>>
    ELSE IF val[Head(sorted)] >= val[x]
         THEN <<Head(sorted)>> \o InsertDesc(Tail(sorted), x, val)
         ELSE <<x>> \o sorted

RECURSIVE SortDesc(_, _, _)
SortDesc(names, i, val) ==
    IF i = 0 THEN <<>>
    ELSE InsertDesc(SortDesc(names, i - 1, val), names[i], val)

IndexOf(s, x) == CHOOSE i \in 1..Len(s) : s[i] = x

\* "Calculate Rankings": countryNames is sorted by population, each name
\* gets populationRank = index + 1, the same array is sorted again by
\* gdpPerCapita and each name gets gdpRank = index + 1.
AssignRanks(keys, Pop, Gdp) ==
    LET byPop == SortDesc(keys, Len(keys), Pop)
        byGdp == SortDesc(byPop, Len(byPop), Gdp)
    IN  [name \in { keys[k] : k \in 1..Len(keys) } |->
            [populationRank |-> IndexOf(byPop, name),
             gdpRank |-> IndexOf(byGdp, name)]]

\* The catalog initData passes to setData for a document that builds.
BuildCatalog(feats, seed) ==
    LET keys == KeysOf(feats, Len(feats))
        LastFeature(name) ==
            CHOOSE i \in 1..Len(feats) :
                /\ feats[i].properties.ADMIN = name
                /\ \A j \in (i + 1)..Len(feats) : feats[j].properties.ADMIN # name
        fullData == [name \in { keys[k] : k \in 1..Len(keys) } |->
                        EntryFor(feats, LastFeature(name), seed)]
        Pop == [name \in DOMAIN fullData |-> fullData[name].population]
        Gdp == [name \in DOMAIN fullData |-> fullData[name].gdpPerCapita]
        ranks == AssignRanks(keys, Pop, Gdp)
    IN  [name \in DOMAIN fullData |->
            [population |-> fullData[name].population,
             gdpPerCapita |-> fullData[name].gdpPerCapita,
             popGrowth |-> fullData[name].popGrowth,
             gdpGrowth |-> fullData[name].gdpGrowth,
             history |-> fullData[name].history,
             populationRank |-> ranks[name].populationRank,
             gdpRank |-> ranks[name].gdpRank]]

\* useState({}) : the empty catalog
EmptyCatalog == [name \in {} |-> Null]

-----------------------------------------------------------------------------
(* Globe3D utilities: hexToRgb, getGradientColor *)

HexDigits ==
    << "0", "1", "2", "3", "4", "5", "6", "7", "8", "9",
       "a", "b", "c", "d", "e", "f" >>
UpperHexDigits == << "A", "B", "C", "D", "E", "F" >>

\* [a-f\d] under the i flag
IsHexDigit(c) ==
    \/ \E i \in 1..Len(HexDigits) : HexDigits[i] = c
    \/ \E i \in 1..Len(UpperHexDigits) : UpperHexDigits[i] = c

HexValue(c) ==
    IF \E i \in 1..Len(HexDigits) : HexDigits[i] = c
    THEN (CHOOSE i \in 1..Len(HexDigits) : HexDigits[i] = c) - 1
    ELSE (CHOOSE i \in 1..Len(UpperHexDigits) : UpperHexDigits[i] = c) + 9

\* parseInt(xy, 16)
ParseByte(hi, lo) == 16 * HexValue(hi) + HexValue(lo)

\* Variant: the three-digit shorthand is accepted and expanded.
hexToRgbShorthand(hex) ==
    LET body == IF hex # <<>> /\ Head(hex) = "#" THEN Tail(hex) ELSE hex
    IN  IF Len(body) = 6 /\ \A i \in 1..6 : IsHexDigit(body[i])
        THEN [r |-> ParseByte(body[1], body[2]),
              g |-> ParseByte(body[3], body[4]),
              b |-> ParseByte(body[5], body[6])]
        ELSE IF Len(body) = 3 /\ \A i \in 1..3 : IsHexDigit(body[i])
        THEN [r |-> ParseByte(body[1], body[1]),
              g |-> ParseByte(body[2], body[2]),
              b |-> ParseByte(body[3], body[3])]
        ELSE [r |-> 0, g |-> 0, b |-> 0]

\* /^#?([a-f\d]{2})([a-f\d]{2})([a-f\d]{2})$/i.exec(hex), black when null
hexToRgb(hex) ==
    LET body == IF hex # <<>> /\ Head(hex) = "#" THEN Tail(hex) ELSE hex
    IN  IF Len(body) = 6 /\ \A i \in 1..6 : IsHexDigit(body[i])
        THEN [r |-> ParseByte(body[1], body[2]),
              g |-> ParseByte(body[3], body[4]),
              b |-> ParseByte(body[5], body[6])]
        ELSE [r |-> 0, g |-> 0, b |-> 0]

\* `rgba(${r},${g},${b},0.95)` and the other rgba strings, alpha in hundredths
Rgba(r, g, b, a) == <<"rgba", r, g, b, a>>

\* The string the template gives when the three channels are NaN
NaNColor == << "rgba(NaN,NaN,NaN,0.95)" >>

Stop(pos, color) == [pos |-> pos, color |-> color]

\* [...stops].sort((a, b) => a.pos - b.pos): ascending and stable
RECURSIVE InsertAsc(_, _)
InsertAsc(sorted, x) ==
    IF sorted = <<>> THEN <<x>>
    ELSE IF Head(sorted).pos <= x.pos
         THEN <<Head(sorted)>> \o InsertAsc(Tail(sorted), x)
         ELSE <<x>> \o sorted

RECURSIVE SortStops(_, _)
SortStops(stops, i) ==
    IF i = 0 THEN <<>> ELSE InsertAsc(SortStops(stops, i - 1), stops[i])

\* Variant: Math.floor in place of Math.round.
RoundChannelFloor(c1, c2, num, range) ==
    (c1 * range + num * (c2 - c1)) \div range

\* Math.round(c1 + relativeValue * (c2 - c1)) with
\* relativeValue = num / range, 0 <= num <= range, range > 0
RoundChannel(c1, c2, num, range) ==
    (2 * (c1 * range + num * (c2 - c1)) + range) \div (2 * range)

\* The index the for loop breaks at; 1 (startStop, endStop as initialised)
\* when no pair bounds the value.
BoundingPair(value, sortedStops) ==
    LET hits == { i \in 1..(Len(sortedStops) - 1) :
                    /\ value >= sortedStops[i].pos
                    /\ value <= sortedStops[i + 1].pos }
    IN  IF hits = {} THEN 1
        ELSE CHOOSE i \in hits : \A j \in hits : i <= j

\* Variant: only the upper end is clamped before the pair is looked for.
getGradientColorNoLowClamp(value, stops) ==
    LET sortedStops == SortStops(stops, Len(stops))
        n == Len(sortedStops)
        i == BoundingPair(value, sortedStops)
        startStop == sortedStops[i]
        endStop == sortedStops[i + 1]
        range == endStop.pos - startStop.pos
        num == value - startStop.pos
        c1 == hexToRgb(startStop.color)
        c2 == hexToRgb(endStop.color)
    IN  IF value < sortedStops[1].pos THEN sortedStops[1].color
        ELSE IF value >= sortedStops[n].pos THEN sortedStops[n].color
        ELSE IF range = 0 THEN NaNColor
        ELSE Rgba(RoundChannel(c1.r, c2.r, num, range),
                  RoundChannel(c1.g, c2.g, num, range),
                  RoundChannel(c1.b, c2.b, num, range), 95)

\* Variant: the stops are used in the order given.
getGradientColorUnsorted(value, stops) ==
    LET sortedStops == stops
        n == Len(sortedStops)
        i == BoundingPair(value, sortedStops)
        startStop == sortedStops[i]
        endStop == sortedStops[i + 1]
        range == endStop.pos - startStop.pos
        num == value - startStop.pos
        c1 == hexToRgb(startStop.color)
        c2 == hexToRgb(endStop.color)
    IN  IF value <= sortedStops[1].pos THEN sortedStops[1].color
        ELSE IF value >= sortedStops[n].pos THEN sortedStops[n].color
        ELSE IF range = 0 THEN NaNColor
        ELSE Rgba(RoundChannel(c1.r, c2.r, num, range),
                  RoundChannel(c1.g, c2.g, num, range),
                  RoundChannel(c1.b, c2.b, num, range), 95)

getGradientColor(value, stops) ==
    LET sortedStops == SortStops(stops, Len(stops))
        n == Len(sortedStops)
        i == BoundingPair(value, sortedStops)
        startStop == sortedStops[i]
        endStop == sortedStops[i + 1]
        range == endStop.pos - startStop.pos
        num == value - startStop.pos
        c1 == hexToRgb(startStop.color)
        c2 == hexToRgb(endStop.color)
    IN  IF value <= sortedStops[1].pos THEN sortedStops[1].color
        ELSE IF value >= sortedStops[n].pos THEN sortedStops[n].color
        ELSE IF range = 0 THEN NaNColor
        ELSE Rgba(RoundChannel(c1.r, c2.r, num, range),
                  RoundChannel(c1.g, c2.g, num, range),
                  RoundChannel(c1.b, c2.b, num, range), 95)

-----------------------------------------------------------------------------
(* Globe3D: getVal, getColor and the polygon callbacks *)

Modes == { "POPULATION", "GDP_PER_CAPITA", "POP_GROWTH", "GDP_GROWTH" }

PopulationStops ==
    << Stop(0, <<"#", "3", "1", "2", "e", "8", "1">>), Stop(300000, <<"#", "7", "c", "3", "a", "e", "d">>),
       Stop(600000, <<"#", "d", "b", "2", "7", "7", "7">>), Stop(1000000, <<"#", "f", "a", "c", "c", "1", "5">>) >>

GdpStops ==
    << Stop(0, <<"#", "0", "2", "2", "c", "2", "2">>), Stop(300000, <<"#", "0", "d", "9", "4", "8", "8">>),
       Stop(700000, <<"#", "2", "2", "d", "3", "e", "e">>), Stop(1000000, <<"#", "e", "0", "f", "2", "f", "e">>) >>

GrowthStops ==
    << Stop(0, <<"#", "e", "f", "4", "4", "4", "4">>), Stop(400000, <<"#", "4", "7", "5", "5", "6", "9">>),
       Stop(1000000, <<"#", "1", "0", "b", "9", "8", "1">>) >>

NoDataColor == Rgba(30, 41, 59, 80)
SelectedCapColor == <<"#", "a", "5", "f", "3", "f", "c">>
HoverCapColor == <<"#", "7", "d", "d", "3", "f", "c">>
SelectedSideColor == Rgba(34, 211, 238, 80)
DefaultSideColor == Rgba(0, 0, 0, 60)

\* getVal as Globe3D renders it with catalog `cat` and mode `m`
getVal(feat, cat, m) ==
    IF feat = Null THEN 0
    ELSE IF feat.properties.ADMIN \notin DOMAIN cat THEN 0
    ELSE LET stats == cat[feat.properties.ADMIN]
         IN  CASE m = "POPULATION" -> stats.population
               [] m = "GDP_PER_CAPITA" -> stats.gdpPerCapita
               [] m = "POP_GROWTH" -> stats.popGrowth
               [] m = "GDP_GROWTH" -> stats.gdpGrowth
               [] OTHER -> 0

\* Variant: population growth is scaled over -1%..2%.
NormalizeSeparate(val, m) ==
    CASE m = "POPULATION" -> Min(val \div 100, 1000000)
      [] m = "GDP_PER_CAPITA" -> Min(MulDiv(val, 1000, 65), 1000000)
      [] m = "POP_GROWTH" -> Min(Max(((val + 100) * 10000) \div 3, 0), 1000000)
      [] m = "GDP_GROWTH" -> Min(Max((val + 200) * 1250, 0), 1000000)

\* The first argument getColor passes to getGradientColor, in millionths:
\* Math.min(val / 100000000, 1), Math.min(val / 65000, 1),
\* Math.min(Math.max((val + 2) / 8, 0), 1)
Normalize(val, m) ==
    CASE m = "POPULATION" -> Min(val \div 100, 1000000)
      [] m = "GDP_PER_CAPITA" -> Min(MulDiv(val, 1000, 65), 1000000)
      [] m \in { "POP_GROWTH", "GDP_GROWTH" } ->
            Min(Max((val + 200) * 1250, 0), 1000000)

\* Variant: the magnitude modes blend the two end colours only.
getColorTwoStops(val, m) ==
    IF (val = 0) /\ (val # 0) THEN NoDataColor
    ELSE CASE m = "POPULATION" ->
                getGradientColor(Normalize(val, m),
                                 << PopulationStops[1], PopulationStops[4] >>)
           [] m = "GDP_PER_CAPITA" ->
                getGradientColor(Normalize(val, m),
                                 << GdpStops[1], GdpStops[4] >>)
           [] m \in { "POP_GROWTH", "GDP_GROWTH" } ->
                getGradientColor(Normalize(val, m), GrowthStops)
           [] OTHER -> <<"#", "f", "f", "f", "f", "f", "f">>

\* getColor; on numbers `!val && val !== 0` is (val = 0) /\ (val # 0)
getColor(val, m) ==
    IF (val = 0) /\ (val # 0) THEN NoDataColor
    ELSE CASE m = "POPULATION" ->
                getGradientColor(Normalize(val, m), PopulationStops)
           [] m = "GDP_PER_CAPITA" ->
                getGradientColor(Normalize(val, m), GdpStops)
           [] m \in { "POP_GROWTH", "GDP_GROWTH" } ->
                getGradientColor(Normalize(val, m), GrowthStops)
           [] OTHER -> <<"#", "f", "f", "f", "f", "f", "f">>

\* selectedCountry?.name || null, as a sequence of at most one name
selectedCountryName ==
    IF selectedCountry = Null THEN <<>>
    ELSE IF selectedCountry.name = "" THEN <<>>
    ELSE << selectedCountry.name >>

IsSelectedName(d) == selectedCountryName = << d.properties.ADMIN >>

\* Variant: the hover test does not compare with the polygon drawn.
polygonAltitudeAnyHover(d) ==
    IF IsSelectedName(d) THEN 30 ELSE IF hoverD # Null THEN 12 ELSE 1

polygonAltitude(d) ==
    IF IsSelectedName(d) THEN 30 ELSE IF d = hoverD THEN 12 ELSE 1

\* Variant: the hover test precedes the selection test.
polygonCapColorHoverFirst(d) ==
    IF d = hoverD THEN HoverCapColor
    ELSE IF IsSelectedName(d) THEN SelectedCapColor
    ELSE getColor(getVal(d, data, mode), mode)

polygonCapColor(d) ==
    IF IsSelectedName(d) THEN SelectedCapColor
    ELSE IF d = hoverD THEN HoverCapColor
    ELSE getColor(getVal(d, data, mode), mode)

polygonSideColor(d) ==
    IF IsSelectedName(d) THEN SelectedSideColor ELSE DefaultSideColor

-----------------------------------------------------------------------------
(* geminiService.generateCountryInsight *)

\* process.env.API_KEY || '' : unset, or a key
ApiKeys == { "", "key" }

\* `subject` is not a field of the JavaScript value: it records the
\* countryName of the call that returned the value.
Insight(summary, keyFactors, outlook, subject) ==
    [summary |-> summary, keyFactors |-> keyFactors, outlook |-> outlook,
     subject |-> subject]

NoKeyInsight(countryName) ==
    Insight("API Key missing. Unable to generate real-time AI insights.",
            << "Data Unavailable" >>, "Neutral", countryName)

ErrorInsight(countryName) ==
    Insight("Unable to retrieve AI insights at this moment.",
            << "Network Error", "API Limit Reached" >>, "Neutral", countryName)

\* JSON.parse(response.text) of a response that follows the schema
ParsedInsight(countryName, outlook) ==
    Insight("Generated summary", << "factor 1", "factor 2", "factor 3" >>,
            outlook, countryName)

\* What ai.models.generateContent may do
Responses == { "Positive", "no text", "unparsable", "rejected" }

\* The value the promise of generateCountryInsight resolves to once the
\* request has ended with `response`.
generateCountryInsight(countryName, response) ==
    IF response \in { "no text", "unparsable", "rejected" }
    THEN ErrorInsight(countryName)
    ELSE ParsedInsight(countryName, response)

-----------------------------------------------------------------------------
(* What is on screen *)

\* App: the loading indicator or Globe3D; Globe3D: FallbackView or the
\* Globe inside GlobeErrorBoundary, which renders its fallback once it
\* has caught an error.
GlobeMounted == ~isLoading

\* Variant: a fault of the surface is not caught by a boundary.
GlobeViewUncaught ==
    IF isLoading THEN "loading"
    ELSE IF ~webGLSupported THEN "fallback"
    ELSE IF hasError THEN "crashed"
    ELSE "surface"

GlobeView ==
    IF isLoading THEN "loading"
    ELSE IF ~webGLSupported THEN "fallback"
    ELSE IF hasError THEN "fallback"
    ELSE "surface"

\* polygonsData of the Globe
Polygons == { features[i] : i \in 1..Len(features) }

\* {selectedCountry && <InfoPanel .../>}
PanelMounted == selectedCountry # Null

\* The dependencies [countryName, stats] of the InfoPanel effect differ from
\* those it last ran with: React runs the effect before any other event.
EffectPending == PanelMounted /\ effectDeps # selectedCountry

-----------------------------------------------------------------------------
(* State after construction *)

\* window.innerWidth x window.innerHeight
WindowSizes == { [width |-> 1280, height |-> 720],
                 [width |-> 800, height |-> 600] }

AppInit ==
    /\ initPc = "fetch"
    /\ data = EmptyCatalog
    /\ features = <<>>
    /\ selectedCountry = Null
    /\ mode = "POPULATION"
    /\ isLoading = TRUE
    /\ hoverD = Null
    /\ dimensions = [width |-> 1280, height |-> 720]
    /\ webGLSupported = TRUE
    /\ probed = FALSE
    /\ hasError = FALSE
    /\ insight = Null
    /\ loading = TRUE
    /\ effectDeps = Null
    /\ fetches = {}
    /\ apiKey \in ApiKeys

\* The application after construction: no module-level function is being
\* evaluated on its own.
Init == AppInit /\ call = Null

moduleVars == <<apiKey, call>>
appVars == <<data, features, selectedCountry, mode, isLoading>>
globeVars == <<hoverD, dimensions, webGLSupported, probed, hasError>>
panelVars == <<insight, loading, effectDeps, fetches>>

-----------------------------------------------------------------------------
(* App.initData *)

\* Variant: the loading flag is cleared as soon as the response arrives.
FetchResolvesClearsLoading ==
    /\ initPc = "fetch"
    /\ ~EffectPending
    /\ initPc' = "json"
    /\ isLoading' = FALSE
    /\ UNCHANGED <<data, features, selectedCountry, mode, globeVars,
                   panelVars, moduleVars>>

\* await fetch(GEOJSON_URL) resolves
FetchResolves ==
    /\ initPc = "fetch"
    /\ ~EffectPending
    /\ initPc' = "json"
    /\ UNCHANGED <<appVars, globeVars, panelVars, moduleVars>>

\* await fetch(GEOJSON_URL) rejects: catch, then finally
FetchRejects ==
    /\ initPc = "fetch"
    /\ ~EffectPending
    /\ initPc' = "done"
    /\ isLoading' = FALSE
    /\ UNCHANGED <<data, features, selectedCountry, mode, globeVars,
                   panelVars, moduleVars>>

\* await res.json() rejects: catch, then finally
JsonRejects ==
    /\ initPc = "json"
    /\ ~EffectPending
    /\ initPc' = "done"
    /\ isLoading' = FALSE
    /\ UNCHANGED <<data, features, selectedCountry, mode, globeVars,
                   panelVars, moduleVars>>

\* await res.json() resolves to a collection with features `feats`; the
\* draws of Math.random() are those of stream `seed`.  setFeatures, then the
\* catalog is built and set unless a feature makes the build throw, then
\* finally.
JsonResolves(feats, seed) ==
    /\ initPc = "json"
    /\ ~EffectPending
    /\ features' = feats
    /\ data' = IF BuildThrows(feats) THEN data ELSE BuildCatalog(feats, seed)
    /\ isLoading' = FALSE
    /\ initPc' = "done"
    /\ UNCHANGED <<selectedCountry, mode, globeVars, panelVars, moduleVars>>

\* Variant: the mode is a dependency of the initData effect, which builds
\* and sets the catalog again.
SetModeRebuilds(m) ==
    /\ ~EffectPending
    /\ m # mode
    /\ mode' = m
    /\ data' = IF initPc = "done" /\ ~BuildThrows(features)
               THEN BuildCatalog(features, MaxSeed)
               ELSE data
    /\ UNCHANGED <<initPc, features, selectedCountry, isLoading,
                   globeVars, panelVars, moduleVars>>

\* ModeButton onClick: setMode(m)
SetMode(m) ==
    /\ ~EffectPending
    /\ m # mode
    /\ mode' = m
    /\ UNCHANGED <<initPc, data, features, selectedCountry, isLoading,
                   globeVars, panelVars, moduleVars>>

-----------------------------------------------------------------------------
(* Globe3D *)

\* Variant: the effect runs after every render and sets the probe's result.
MountEffectReprobes(available) ==
    /\ GlobeMounted
    /\ ~EffectPending
    /\ probed' = TRUE
    /\ webGLSupported' = available
    /\ UNCHANGED <<initPc, appVars, hoverD, dimensions, hasError, panelVars,
                   moduleVars>>

\* The mount effect: the capability probe, and the resize listener
MountEffect(available) ==
    /\ GlobeMounted
    /\ ~probed
    /\ ~EffectPending
    /\ probed' = TRUE
    /\ webGLSupported' = IF ~available THEN FALSE ELSE webGLSupported
    /\ UNCHANGED <<initPc, appVars, hoverD, dimensions, hasError, panelVars,
                   moduleVars>>

\* handleResize
Resize(size) ==
    /\ GlobeMounted
    /\ probed
    /\ ~EffectPending
    /\ size # dimensions
    /\ dimensions' = size
    /\ UNCHANGED <<initPc, appVars, hoverD, webGLSupported, probed, hasError,
                   panelVars, moduleVars>>

\* The Globe throws while it renders: getDerivedStateFromError
SurfaceFault ==
    /\ GlobeView = "surface"
    /\ ~EffectPending
    /\ hasError' = TRUE
    /\ UNCHANGED <<initPc, appVars, hoverD, dimensions, webGLSupported,
                   probed, panelVars, moduleVars>>

\* onPolygonHover={setHoverD}: the polygon under the pointer, or null
onPolygonHover(d) ==
    /\ GlobeView = "surface"
    /\ ~EffectPending
    /\ d # hoverD
    /\ hoverD' = d
    /\ UNCHANGED <<initPc, appVars, dimensions, webGLSupported, probed,
                   hasError, panelVars, moduleVars>>

\* Variant: the stats of an earlier selection are kept under the new name.
onCountryClickKeepsStats(name, stats) ==
    selectedCountry' = [name |-> name,
                        stats |-> IF selectedCountry = Null
                                  THEN stats
                                  ELSE selectedCountry.stats]

\* onCountryClick={(name, stats) => setSelectedCountry({ name, stats })}
onCountryClick(name, stats) ==
    selectedCountry' = [name |-> name, stats |-> stats]

\* A click that changes the dependencies of the InfoPanel effect starts a
\* fetch: at most MaxInFlight are followed.
StartsFetch(name, stats) ==
    selectedCountry = Null \/ selectedCountry # [name |-> name, stats |-> stats]

CanClick(name, stats) ==
    StartsFetch(name, stats) => Cardinality(fetches) < MaxInFlight

\* Variant: onCountryClick is called without the test of stats.
onPolygonClickUnguarded(feat) ==
    /\ GlobeView = "surface"
    /\ ~EffectPending
    /\ LET name == feat.properties.ADMIN
           stats == IF name \in DOMAIN data THEN data[name] ELSE Undefined
       IN  /\ CanClick(name, stats)
           /\ onCountryClick(name, stats)
    /\ UNCHANGED <<initPc, data, features, mode, isLoading, globeVars,
                   panelVars, moduleVars>>

\* onPolygonClick
onPolygonClick(feat) ==
    /\ GlobeView = "surface"
    /\ ~EffectPending
    /\ LET name == feat.properties.ADMIN
       IN  IF name \in DOMAIN data
           THEN /\ CanClick(name, data[name])
                /\ onCountryClick(name, data[name])
           ELSE UNCHANGED selectedCountry
    /\ UNCHANGED <<initPc, data, features, mode, isLoading, globeVars,
                   panelVars, moduleVars>>

\* Object.entries(data): the entries of the list
FallbackEntries == DOMAIN data

\* Variant: every button passes the stats of the first entry.
FallbackClickFirstStats(name) ==
    /\ GlobeView = "fallback"
    /\ ~EffectPending
    /\ LET s == data[CHOOSE n \in DOMAIN data : TRUE]
       IN  CanClick(name, s) /\ onCountryClick(name, s)
    /\ UNCHANGED <<initPc, data, features, mode, isLoading, globeVars,
                   panelVars, moduleVars>>

\* FallbackView: the button of entry `name`
FallbackClick(name) ==
    /\ GlobeView = "fallback"
    /\ ~EffectPending
    /\ CanClick(name, data[name])
    /\ onCountryClick(name, data[name])
    /\ UNCHANGED <<initPc, data, features, mode, isLoading, globeVars,
                   panelVars, moduleVars>>

-----------------------------------------------------------------------------
(* InfoPanel *)

\* One call of fetchInsight: the isMounted flag of its effect, the value
\* generateCountryInsight has resolved to (Null while the request is out) and
\* whether the 1200 ms timer has fired.  Calls in the same condition are
\* kept once.
Fetch(countryName, isMounted, result, elapsed) ==
    [countryName |-> countryName, isMounted |-> isMounted,
     result |-> result, elapsed |-> elapsed]

\* return () => { isMounted = false; } of every effect that ran
Cleanup(fs) ==
    { Fetch(f.countryName, FALSE, f.result, f.elapsed) : f \in fs }

\* The useEffect of InfoPanel for the current [countryName, stats]: the
\* cleanup of the previous run, then fetchInsight up to its await.  Without a
\* key generateCountryInsight returns at once, with no request made.
PanelEffect ==
    /\ EffectPending
    /\ loading' = TRUE
    /\ insight' = Null
    /\ effectDeps' = selectedCountry
    /\ fetches' = Cleanup(fetches) \cup
                    { Fetch(selectedCountry.name, TRUE,
                            IF apiKey = ""
                            THEN NoKeyInsight(selectedCountry.name)
                            ELSE Null,
                            FALSE) }
    /\ UNCHANGED <<initPc, appVars, globeVars, moduleVars>>

\* Variant: the isMounted flag is not consulted.
AfterAwaitUnguarded(f, aiResult) ==
    insight' = aiResult /\ loading' = FALSE

\* The code after `await Promise.all([...])` for fetch f, which resolved to
\* aiResult.  The promise of generateCountryInsight never rejects, so the
\* catch block of fetchInsight is not reached.
AfterAwait(f, aiResult) ==
    IF f.isMounted
    THEN insight' = aiResult /\ loading' = FALSE
    ELSE UNCHANGED <<insight, loading>>

\* Variant: the code after the await runs as soon as the request has ended.
RequestEndsNoJoin(f, response) ==
    /\ f \in fetches
    /\ ~EffectPending
    /\ f.result = Null
    /\ AfterAwait(f, generateCountryInsight(f.countryName, response))
    /\ fetches' = fetches \ {f}
    /\ UNCHANGED <<initPc, appVars, globeVars, effectDeps, moduleVars>>

\* The request of fetch f ends; Promise.all resolves if the timer has fired.
RequestEnds(f, response) ==
    /\ f \in fetches
    /\ ~EffectPending
    /\ f.result = Null
    /\ LET aiResult == generateCountryInsight(f.countryName, response)
       IN  IF f.elapsed
           THEN /\ AfterAwait(f, aiResult)
                /\ fetches' = fetches \ {f}
           ELSE /\ fetches' = (fetches \ {f}) \cup
                       { Fetch(f.countryName, f.isMounted, aiResult, FALSE) }
                /\ UNCHANGED <<insight, loading>>
    /\ UNCHANGED <<initPc, appVars, globeVars, effectDeps, moduleVars>>

\* The timer of fetch f fires; Promise.all resolves if the request has ended.
TimerFires(f) ==
    /\ f \in fetches
    /\ ~EffectPending
    /\ ~f.elapsed
    /\ IF f.result # Null
       THEN /\ AfterAwait(f, f.result)
            /\ fetches' = fetches \ {f}
       ELSE /\ fetches' = (fetches \ {f}) \cup
                   { Fetch(f.countryName, f.isMounted, Null, TRUE) }
            /\ UNCHANGED <<insight, loading>>
    /\ UNCHANGED <<initPc, appVars, globeVars, effectDeps, moduleVars>>

\* onClose={() => setSelectedCountry(null)}: InfoPanel unmounts, its state
\* is dropped and the cleanup of its effect runs.
\* Variant: closing the panel also clears the hovered polygon.
ClosePanelClearsHover ==
    /\ PanelMounted
    /\ ~EffectPending
    /\ selectedCountry' = Null
    /\ hoverD' = Null
    /\ insight' = Null
    /\ loading' = TRUE
    /\ effectDeps' = Null
    /\ fetches' = Cleanup(fetches)
    /\ UNCHANGED <<initPc, data, features, mode, isLoading, dimensions,
                   webGLSupported, probed, hasError, moduleVars>>

ClosePanel ==
    /\ PanelMounted
    /\ ~EffectPending
    /\ selectedCountry' = Null
    /\ insight' = Null
    /\ loading' = TRUE
    /\ effectDeps' = Null
    /\ fetches' = Cleanup(fetches)
    /\ UNCHANGED <<initPc, data, features, mode, isLoading, globeVars, moduleVars>>

-----------------------------------------------------------------------------
(* The specification *)

Next ==
    \/ FetchResolves
    \/ FetchRejects
    \/ JsonRejects
    \/ \E feats \in Documents, seed \in 0..MaxSeed : JsonResolves(feats, seed)
    \/ \E m \in Modes : SetMode(m)
    \/ \E available \in BOOLEAN : MountEffect(available)
    \/ \E size \in WindowSizes : Resize(size)
    \/ SurfaceFault
    \/ \E d \in Polygons \cup {Null} : onPolygonHover(d)
    \/ \E feat \in Polygons : onPolygonClick(feat)
    \/ \E name \in FallbackEntries : FallbackClick(name)
    \/ PanelEffect
    \/ \E f \in fetches, response \in Responses : RequestEnds(f, response)
    \/ \E f \in fetches : TimerFires(f)
    \/ ClosePanel

Spec == Init /\ [][Next]_vars

-----------------------------------------------------------------------------
(* The module-level functions, called on their own *)

\* A call is a record of the function's name and arguments; once the
\* function has returned, the record also holds the result.
Returned(fn) == call.fn = fn /\ "result" \in DOMAIN call
Pending(fn) == call.fn = fn /\ "result" \notin DOMAIN call

\* Stops at five positions, one position twice, in both letter cases, two
\* of them with a colour string the regular expression does not match
StopPool ==
    { Stop(0, <<"#", "e", "f", "4", "4", "4", "4">>),
      Stop(400000, <<"#", "4", "7", "5", "5", "6", "9">>),
      Stop(400000, <<"#", "F", "A", "C", "C", "1", "5">>),
      Stop(1000000, <<"#", "1", "0", "b", "9", "8", "1">>),
      Stop(700000, <<"#", "f", "f", "f">>),
      Stop(200000, <<"1", "2", "3", "4", "5", "g">>) }

\* The stop lists: two or more different stops of the pool, in any order
StopLists ==
    { s \in UNION { [1..n -> StopPool] : n \in 2..MaxStops } :
        \A i, j \in DOMAIN s : i # j => s[i] # s[j] }

\* Values below, at, between and above the positions of the pool
GradientValues == { -100000, 0, 200000, 400000, 700000, 1000000, 1200000 }

GradientCalls ==
    { [fn |-> "getGradientColor", value |-> v, stops |-> s] :
        v \in GradientValues, s \in StopLists }

\* The metric values of the catalog entities, with zero, the scale of each
\* magnitude mode and values around the ends and the middle stop of the
\* growth range.
PopulationValues ==
    { baseData[i].population : i \in 1..Len(baseData) }
        \cup { SyntheticStats("Fiji").population, 0, 50000000, 100000000 }
GdpValues ==
    { baseData[i].gdpPerCapita : i \in 1..Len(baseData) }
        \cup { SyntheticStats("Fiji").gdpPerCapita, 0, 32500, 65000 }
GrowthValues ==
    { baseData[i].popGrowth : i \in 1..Len(baseData) }
        \cup { baseData[i].gdpGrowth : i \in 1..Len(baseData) }
        \cup { SyntheticStats("Fiji").popGrowth,
               SyntheticStats("Fiji").gdpGrowth,
               -300, -200, -199, 0, 120, 599, 600, 900 }

ColorCalls ==
    { [fn |-> "getColor", val |-> v, mode |-> "POPULATION"] :
        v \in PopulationValues }
    \cup { [fn |-> "getColor", val |-> v, mode |-> "GDP_PER_CAPITA"] :
             v \in GdpValues }
    \cup { [fn |-> "getColor", val |-> v, mode |-> m] :
             v \in GrowthValues, m \in { "POP_GROWTH", "GDP_GROWTH" } }

\* Catalogs of 1..MaxEntities entities, in the order of Object.keys, with
\* every assignment of metric values, ties included.
RankNames == << "A", "B", "C", "D", "E" >>
RankKeys == { SubSeq(RankNames, 1, n) : n \in 1..MaxEntities }
KeySet(keys) == { keys[k] : k \in 1..Len(keys) }

RankCalls ==
    UNION { { [fn |-> "assignRanks", keys |-> keys, pop |-> P, gdp |-> G] :
                P \in [KeySet(keys) -> 1..MaxMetric],
                G \in [KeySet(keys) -> 1..MaxMetric] } : keys \in RankKeys }

\* generateHistory for values and growth rates of the catalog, 1..MaxYears
\* years and every stream of Math.random(), before or after earlier draws
HistoryCalls ==
    { [fn |-> "generateHistory", currentValue |-> v, growthRate |-> g,
       years |-> n, seed |-> sd, off |-> o] :
        v \in { 1000, 27562, 39537508, 1400000000 },
        g \in { -121, -10, 0, 79, 720 },
        n \in 1..MaxYears, sd \in 0..MaxSeed, o \in { 0, 2 * HistoryYears } }

\* Two builds of the entry of a feature outside the authoritative set: each
\* its own document, position in it and stream of Math.random().
SyntheticDocs ==
    { << Feature("Fiji", 1) >>,
      << Feature("China", 1), Feature("Fjii", 2), Feature("Fiji", 3) >>,
      << Feature("Peru", 1), Feature("Fiji", 2) >> }

Builds ==
    { [feats |-> f, i |-> i, seed |-> sd] :
        f \in SyntheticDocs, i \in 1..3, sd \in 0..MaxSeed }

SyntheticBuilds ==
    { b \in Builds :
        b.i <= Len(b.feats) /\ ~IsMajor(b.feats[b.i].properties.ADMIN) }

EntryCalls ==
    { [fn |-> "entryFor", first |-> a, second |-> b] :
        a \in SyntheticBuilds, b \in SyntheticBuilds }

\* Colour strings: of the pool, without the '#', and strings that are
\* too short, too long, empty or hold a character that is no hex digit
HexInputs ==
    { st.color : st \in StopPool }
        \cup { <<"1", "0", "B", "9", "8", "1">>,
               <<>>,
               <<"#">>,
               <<"#", "#", "e", "f", "4", "4", "4", "4">>,
               <<"#", "e", "f", "4", "4", "4", "4", "8", "0">>,
               <<"#", "e", "f", "4", "4", "4">>,
               <<"r", "e", "d">>,
               <<"#", "e", "f", "4", "4", "4", "4", " ">> }

HexCalls == { [fn |-> "hexToRgb", hex |-> h] : h \in HexInputs }

PureCalls ==
    HexCalls \cup GradientCalls \cup ColorCalls \cup RankCalls \cup HistoryCalls
        \cup EntryCalls

\* No application event happens while a function is called on its own.
PureInit == AppInit /\ call \in PureCalls

appState == <<initPc, appVars, globeVars, panelVars, apiKey>>

ApplyGradient ==
    /\ Pending("getGradientColor")
    /\ call' = [fn |-> call.fn, value |-> call.value, stops |-> call.stops,
                result |-> getGradientColor(call.value, call.stops)]
    /\ UNCHANGED appState

ApplyColor ==
    /\ Pending("getColor")
    /\ call' = [fn |-> call.fn, val |-> call.val, mode |-> call.mode,
                result |-> getColor(call.val, call.mode)]
    /\ UNCHANGED appState

ApplyRanks ==
    /\ Pending("assignRanks")
    /\ call' = [fn |-> call.fn, keys |-> call.keys, pop |-> call.pop,
                gdp |-> call.gdp,
                result |-> AssignRanks(call.keys, call.pop, call.gdp)]
    /\ UNCHANGED appState

ApplyHistory ==
    /\ Pending("generateHistory")
    /\ call' = [fn |-> call.fn, currentValue |-> call.currentValue,
                growthRate |-> call.growthRate, years |-> call.years,
                seed |-> call.seed, off |-> call.off,
                result |-> generateHistory(call.currentValue, call.growthRate,
                                           call.years, call.seed, call.off)]
    /\ UNCHANGED appState

ApplyEntries ==
    /\ Pending("entryFor")
    /\ call' = [fn |-> call.fn, first |-> call.first, second |-> call.second,
                result |->
                  << EntryFor(call.first.feats, call.first.i, call.first.seed),
                     EntryFor(call.second.feats, call.second.i,
                              call.second.seed) >>]
    /\ UNCHANGED appState

ApplyHex ==
    /\ Pending("hexToRgb")
    /\ call' = [fn |-> call.fn, hex |-> call.hex,
                result |-> hexToRgb(call.hex)]
    /\ UNCHANGED appState

PureNext ==
    \/ ApplyHex
    \/ ApplyGradient
    \/ ApplyColor
    \/ ApplyRanks
    \/ ApplyHistory
    \/ ApplyEntries

PureSpec == PureInit /\ [][PureNext]_vars

-----------------------------------------------------------------------------
(* Properties *)

\* The polygon carries the selected name / is the hovered polygon.
NameSelected(d) ==
    selectedCountry # Null /\ selectedCountry.name = d.properties.ADMIN
Hovered(d) == hoverD # Null /\ hoverD = d

\* The gradient colour of the polygon's metric value, and altitude 0.01
DefaultDrawn(d) ==
    /\ polygonCapColor(d) = getColor(getVal(d, data, mode), mode)
    /\ polygonCapColor(d) \notin
          { <<"#", "a", "5", "f", "3", "f", "c">>,
            <<"#", "7", "d", "d", "3", "f", "c">> }
    /\ polygonAltitude(d) = 1

\* '#7dd3fc' and altitude 0.12
HoverDrawn(d) ==
    /\ polygonCapColor(d) = <<"#", "7", "d", "d", "3", "f", "c">>
    /\ polygonAltitude(d) = 12

\* '#a5f3fc', altitude 0.3 and the glow side colour
SelectedDrawn(d) ==
    /\ polygonCapColor(d) = <<"#", "a", "5", "f", "3", "f", "c">>
    /\ polygonAltitude(d) = 30
    /\ polygonSideColor(d) = <<"rgba", 34, 211, 238, 80>>

\* C1: every polygon is drawn by strict priority: the selected treatment
\* when its name is the selected name, also when it is the hovered polygon;
\* otherwise the hovered treatment when it is the hovered polygon; otherwise
\* the gradient colour of its metric value at altitude 0.01.
C1_VisualPriority ==
    \A d \in Polygons :
        /\ NameSelected(d) => SelectedDrawn(d)
        /\ (~NameSelected(d) /\ Hovered(d)) => HoverDrawn(d)
        /\ (~NameSelected(d) /\ ~Hovered(d)) => DefaultDrawn(d)

\* A polygon both selected and hovered beside one that is neither.
C1_Witness ==
    /\ GlobeView = "surface"
    /\ \E d, e \in Polygons :
          /\ NameSelected(d) /\ Hovered(d)
          /\ ~NameSelected(e) /\ ~Hovered(e)

C3_ClickSelects ==
    [][ \A feat \in Polygons :
          (onPolygonClick(feat) /\ feat.properties.ADMIN \in DOMAIN data)
          => selectedCountry' = [name |-> feat.properties.ADMIN,
                                 stats |-> data[feat.properties.ADMIN]] ]_vars

\* On the surface an entity is selected while the fetch of an entity
\* selected before it is still in flight.
C3_Witness ==
    /\ GlobeView = "surface"
    /\ selectedCountry # Null
    /\ selectedCountry.stats = data[selectedCountry.name]
    /\ \E f \in fetches : ~f.isMounted /\ f.countryName # selectedCountry.name
    /\ \E f \in fetches : f.isMounted /\ f.countryName = selectedCountry.name


\* C4: from a state with entity A selected and a different entity B
\* hovered, the deselecting event ends in a state with no selected entity
\* and no hovered entity, where A and B are both drawn with the default
\* gradient colour and minimal altitude.  The only event of the program that
\* deselects is the close button of the detail panel.
C4_DeselectRestoresDefaults ==
    [][ ( /\ GlobeView = "surface"
          /\ selectedCountry # Null
          /\ hoverD # Null
          /\ hoverD.properties.ADMIN # selectedCountry.name
          /\ ClosePanel )
        => ( /\ selectedCountry' = Null
             /\ hoverD' = Null
             /\ \A d \in Polygons : DefaultDrawn(d)' ) ]_vars

\* C5: once the fallback view is rendered, because the probe failed or the
\* boundary caught a fault, every later step leaves the fallback view
\* rendered.
C5_FallbackIrreversible ==
    [][ GlobeView = "fallback" => GlobeView' = "fallback" ]_vars

\* The fallback view after a caught fault, with later events behind it.
C5_Witness ==
    /\ hasError
    /\ GlobeView = "fallback"
    /\ selectedCountry # Null
    /\ mode # "POPULATION"
    /\ dimensions # [width |-> 1280, height |-> 720]

C7_FallbackClickSelects ==
    /\ [](FallbackEntries = DOMAIN data)
    /\ [][ \A n \in DOMAIN data :
              FallbackClick(n)
              => selectedCountry' = [name |-> n, stats |-> data[n]] ]_vars
    /\ [][ \A feat \in Polygons :
              (feat.properties.ADMIN \in DOMAIN data /\ onPolygonClick(feat))
              => \A n \in DOMAIN data :
                    n = feat.properties.ADMIN
                    => selectedCountry' = [name |-> n, stats |-> data[n]] ]_vars

\* In the fallback list of a catalog of several entities, one that is not
\* the first in any order is selected with its own record.
C7_Witness ==
    /\ GlobeView = "fallback"
    /\ Cardinality(DOMAIN data) >= 2
    /\ selectedCountry # Null
    /\ selectedCountry.name \in DOMAIN data
    /\ selectedCountry.stats = data[selectedCountry.name]
    /\ \E f \in fetches : ~f.isMounted /\ f.countryName # selectedCountry.name


\* The fetches whose effect has been cleaned up
Stale == { f \in fetches : ~f.isMounted }

\* Fetch f completes: Promise.all resolves and the code after the await runs.
Completes(f) ==
    \/ f.elapsed /\ \E response \in Responses : RequestEnds(f, response)
    \/ f.result # Null /\ TimerFires(f)

\* C8: a narrative fetch made stale by a change of selection or by closing
\* the panel changes neither insight nor loading when it later completes;
\* they are set only by the one fetch started for the active selection, to
\* a narrative about the selected entity.
C8_StaleDiscarded ==
    /\ [][ \A f \in Stale : Completes(f) => UNCHANGED <<insight, loading>> ]_vars
    /\ [][ \A f \in fetches :
              (Completes(f) /\ <<insight, loading>>' # <<insight, loading>>)
              => /\ f.isMounted
                 /\ selectedCountry # Null
                 /\ f.countryName = selectedCountry.name
                 /\ insight'.subject = selectedCountry.name
                 /\ loading' = FALSE ]_vars
    /\ [](\A f, g \in fetches : (f.isMounted /\ g.isMounted) => f = g)
    /\ [](\A f \in fetches :
              f.isMounted => effectDeps # Null /\ f.countryName = effectDeps.name)

\* The narrative of the selected entity is shown while a stale fetch for
\* another entity is about to complete.
C8_Witness ==
    /\ selectedCountry # Null
    /\ ~EffectPending
    /\ insight # Null
    /\ insight.subject = selectedCountry.name
    /\ \E f \in Stale :
          /\ f.countryName # selectedCountry.name
          /\ f.result # Null
          /\ f.result # insight
          /\ ~f.elapsed

\* C9: until initData has finished, isLoading is true and the globe
\* renderer is not mounted; the renderer is mounted, and its mount effect
\* runs, only after initData has completed.
C9_LoadingUntilDone ==
    /\ initPc # "done" => (isLoading /\ ~GlobeMounted /\ GlobeView = "loading")
    /\ GlobeMounted => initPc = "done"
    /\ probed => initPc = "done"

\* The response has arrived, the document has not: still loading.
C9_Witness ==
    /\ initPc = "json"
    /\ isLoading
    /\ ~GlobeMounted

\* A record with base stats, a full history of both series and both ranks
CompleteRecord(r, n) ==
    /\ DOMAIN r = { "population", "gdpPerCapita", "popGrowth", "gdpGrowth",
                    "history", "populationRank", "gdpRank" }
    /\ Len(r.history.population) = HistoryYears
    /\ Len(r.history.gdp) = HistoryYears
    /\ r.populationRank \in 1..n
    /\ r.gdpRank \in 1..n

\* C10: whenever the renderer is mounted, the catalog passed to it holds a
\* complete record for every polygon name of the polygon set passed to it:
\* never polygons together with a partial or empty catalog.
C10_CatalogComplete ==
    GlobeMounted =>
        /\ Polygons # {} => DOMAIN data # {}
        /\ \A d \in Polygons :
              d.properties.ADMIN # Undefined
              => /\ d.properties.ADMIN \in DOMAIN data
                 /\ CompleteRecord(data[d.properties.ADMIN],
                                   Cardinality(DOMAIN data))

\* initData fails: the fetch rejects, the body does not parse, or a feature
\* makes the construction of the catalog throw.
InitDataFails ==
    \/ FetchRejects
    \/ JsonRejects
    \/ \E feats \in Documents, seed \in 0..MaxSeed :
          BuildThrows(feats) /\ JsonResolves(feats, seed)

\* C11: when the boundary fetch fails (network error, unparsable body, or
\* an exception while the catalog is built) the loading state does not
\* clear: the application stays on the loading indicator and the renderer
\* is not mounted.
C11_FailureKeepsLoading ==
    [][ InitDataFails => (isLoading' /\ ~GlobeMounted' /\ GlobeView' = "loading") ]_vars

\* The polygon's entity has no stats record in the catalog.
NoData(d) == d.properties.ADMIN \notin DOMAIN data

\* C12: a polygon whose entity has no stats record is filled with the
\* no-data colour 'rgba(30, 41, 59, 0.8)' under every mode, never with a
\* colour of a gradient.
C12_NoDataNeutral ==
    \A d \in Polygons :
        (NoData(d) /\ ~NameSelected(d) /\ ~Hovered(d))
        => /\ getColor(getVal(d, data, mode), mode) = <<"rgba", 30, 41, 59, 80>>
           /\ polygonCapColor(d) = <<"rgba", 30, 41, 59, 80>>

\* C13: a no-data polygon is filled with the no-data colour whether or not
\* it is hovered or selected, and its altitude follows the overrides: 0.3
\* when selected, 0.12 when hovered, 0.01 otherwise.
C13_NoDataOverrides ==
    \A d \in Polygons :
        NoData(d)
        => /\ polygonCapColor(d) = <<"rgba", 30, 41, 59, 80>>
           /\ polygonAltitude(d) = IF NameSelected(d) THEN 30
                                   ELSE IF Hovered(d) THEN 12 ELSE 1

\* The red, green and blue of the colours of StopPool, read off the
\* strings; black for the two that are not six hex digits
RgbOf(color) ==
    CASE color = <<"#", "e", "f", "4", "4", "4", "4">> -> <<239, 68, 68>>
      [] color = <<"#", "4", "7", "5", "5", "6", "9">> -> <<71, 85, 105>>
      [] color = <<"#", "F", "A", "C", "C", "1", "5">> -> <<250, 204, 21>>
      [] color = <<"#", "1", "0", "b", "9", "8", "1">> -> <<16, 185, 129>>
      [] color = <<"#", "f", "f", "f">> -> <<0, 0, 0>>
      [] color = <<"1", "2", "3", "4", "5", "g">> -> <<0, 0, 0>>

\* 'rgba(r,g,b,0.95)' of a colour of StopPool
RgbaOf(color) ==
    <<"rgba", RgbOf(color)[1], RgbOf(color)[2], RgbOf(color)[3], 95>>

LowestPos(stops) ==
    CHOOSE p \in { stops[i].pos : i \in DOMAIN stops } :
        \A i \in DOMAIN stops : p <= stops[i].pos
HighestPos(stops) ==
    CHOOSE p \in { stops[i].pos : i \in DOMAIN stops } :
        \A i \in DOMAIN stops : p >= stops[i].pos

\* The first and the last stop of the list at position p
FirstAt(stops, p) ==
    stops[CHOOSE i \in DOMAIN stops :
            stops[i].pos = p /\ \A j \in 1..(i - 1) : stops[j].pos # p]
LastAt(stops, p) ==
    stops[CHOOSE i \in DOMAIN stops :
            stops[i].pos = p /\ \A j \in (i + 1)..Len(stops) : stops[j].pos # p]

\* C14 as stated: for every stop list of two or more stops, the result is
\* the colour of a lowest-position stop when value <= its position, the
\* colour of a highest-position stop when value >= its position, and the
\* RGB of every stop strictly inside whose position the value equals.
C14_GradientEndpointsAsStated ==
    Returned("getGradientColor") =>
        LET v == call.value
            stops == call.stops
        IN  /\ v <= LowestPos(stops)
                => call.result = FirstAt(stops, LowestPos(stops)).color
            /\ v >= HighestPos(stops)
                => call.result = LastAt(stops, HighestPos(stops)).color
            /\ \A i \in DOMAIN stops :
                  ( /\ LowestPos(stops) < stops[i].pos
                    /\ stops[i].pos < HighestPos(stops)
                    /\ v = stops[i].pos )
                  => call.result = RgbaOf(stops[i].color)

\* C14: the three cases in the order the code tests them.  value <= the
\* lowest position: the colour of the first stop at it; otherwise value >=
\* the highest position: the colour of the last stop at it; otherwise value
\* at the position of a stop: the RGB of the first stop at that position,
\* which is the only one when the positions of the list are distinct.
C14_GradientEndpoints ==
    Returned("getGradientColor") =>
        LET v == call.value
            stops == call.stops
            lo == LowestPos(stops)
            hi == HighestPos(stops)
        IN  /\ v <= lo => call.result = FirstAt(stops, lo).color
            /\ (v > lo /\ v >= hi) => call.result = LastAt(stops, hi).color
            /\ \A i \in DOMAIN stops :
                  (lo < v /\ v < hi /\ v = stops[i].pos)
                  => call.result = RgbaOf(FirstAt(stops, v).color)

\* The value at the position of an interior stop of a list given out of
\* order, returned as that stop's RGB.
C14_Witness ==
    /\ Returned("getGradientColor")
    /\ call.stops[1].pos > call.stops[2].pos
    /\ \E i \in DOMAIN call.stops :
          /\ call.value = call.stops[i].pos
          /\ LowestPos(call.stops) < call.value
          /\ call.value < HighestPos(call.stops)
          /\ call.result = RgbaOf(call.stops[i].color)

\* C15: in the magnitude modes the colour is the gradient at the value
\* divided by the scale of the mode and clamped: min(population / 1e8, 1)
\* on the stops at 0.0/0.3/0.6/1.0 and min(gdpPerCapita / 65000, 1) on the
\* stops at 0.0/0.3/0.7/1.0; the scalar lies in [0, 1] for every catalog
\* value, and a population of 50,000,000 is interpolated between the stops
\* at 0.3 and 0.6 at t = 2/3.
C15_MagnitudeEncoding ==
    (Returned("getColor") /\ call.mode \in { "POPULATION", "GDP_PER_CAPITA" })
    => LET v == call.val
           scalar == IF call.mode = "POPULATION"
                     THEN IF v >= 100000000 THEN 1000000 ELSE v \div 100
                     ELSE IF v >= 65000 THEN 1000000 ELSE (v * 1000) \div 65
           stops == IF call.mode = "POPULATION"
                    THEN << Stop(0, <<"#", "3", "1", "2", "e", "8", "1">>),
                            Stop(300000, <<"#", "7", "c", "3", "a", "e", "d">>),
                            Stop(600000, <<"#", "d", "b", "2", "7", "7", "7">>),
                            Stop(1000000, <<"#", "f", "a", "c", "c", "1", "5">>) >>
                    ELSE << Stop(0, <<"#", "0", "2", "2", "c", "2", "2">>),
                            Stop(300000, <<"#", "0", "d", "9", "4", "8", "8">>),
                            Stop(700000, <<"#", "2", "2", "d", "3", "e", "e">>),
                            Stop(1000000, <<"#", "e", "0", "f", "2", "f", "e">>) >>
       IN  /\ Normalize(v, call.mode) = scalar
           /\ 0 <= scalar /\ scalar <= 1000000
           /\ call.result = getGradientColor(scalar, stops)
           /\ scalar = 0 => call.result = stops[1].color
           /\ scalar = 1000000 => call.result = stops[4].color
           /\ (call.mode = "POPULATION" /\ v = 50000000)
                => /\ scalar = 500000
                   /\ call.result =
                        <<"rgba", (3 * 124 + 2 * (219 - 124) + 1) \div 3,
                                  (3 * 58 + 2 * (39 - 58) + 1) \div 3,
                                  (3 * 237 + 2 * (119 - 237) + 1) \div 3, 95>>
                   /\ call.result = <<"rgba", 187, 45, 158, 95>>

\* The population of 50,000,000 has been coloured.
C15_Witness ==
    /\ Returned("getColor")
    /\ call.mode = "POPULATION"
    /\ call.val = 50000000
    /\ call.result = <<"rgba", 187, 45, 158, 95>>

\* C16: both growth modes use the scalar clamp((value + 2) / 8, 0, 1) on
\* the stops at 0.0/0.4/1.0, so equal growth values get the same colour in
\* both modes; values <= -2 get the red end stop, values >= 6 the green.
C16_GrowthEncoding ==
    (Returned("getColor") /\ call.mode \in { "POP_GROWTH", "GDP_GROWTH" })
    => LET v == call.val
           scalar == IF v <= -200 THEN 0
                     ELSE IF v >= 600 THEN 1000000 ELSE (v + 200) * 1250
           other == IF call.mode = "POP_GROWTH" THEN "GDP_GROWTH"
                    ELSE "POP_GROWTH"
       IN  /\ Normalize(v, call.mode) = scalar
           /\ Normalize(v, other) = scalar
           /\ call.result = getColor(v, other)
           /\ call.result =
                getGradientColor(scalar,
                    << Stop(0, <<"#", "e", "f", "4", "4", "4", "4">>),
                       Stop(400000, <<"#", "4", "7", "5", "5", "6", "9">>),
                       Stop(1000000, <<"#", "1", "0", "b", "9", "8", "1">>) >>)
           /\ v <= -200 => call.result = <<"#", "e", "f", "4", "4", "4", "4">>
           /\ v >= 600 => call.result = <<"#", "1", "0", "b", "9", "8", "1">>
           /\ v = 120 => call.result = <<"rgba", 71, 85, 105, 95>>

\* A population growth strictly inside the range of the population-growth
\* scale of -1%..2% has been coloured between the red and the slate stop.
C16_Witness ==
    /\ Returned("getColor")
    /\ call.mode = "POP_GROWTH"
    /\ call.val = -30
    /\ call.result \notin { <<"#", "e", "f", "4", "4", "4", "4">>,
                            <<"rgba", 71, 85, 105, 95>> }

\* The ranks `rank` are a bijection between the names and 1..N, rank 1 goes
\* to a name of maximal value, and a smaller rank never has a smaller value.
RankTotal(names, rank, val) ==
    /\ { rank[n] : n \in names } = 1..Cardinality(names)
    /\ \A a, b \in names : rank[a] = rank[b] => a = b
    /\ \A a \in names : rank[a] = 1 => \A b \in names : val[a] >= val[b]
    /\ \A a, b \in names : rank[a] < rank[b] => val[a] >= val[b]

\* C17: for each of population and gdpPerCapita the ranks assigned to a
\* catalog of N entities are a bijection onto 1..N, rank 1 belongs to an
\* entity of maximal value, and ranks descend with the value.
C17_RankTotality ==
    Returned("assignRanks") =>
        LET names == KeySet(call.keys)
        IN  /\ DOMAIN call.result = names
            /\ RankTotal(names,
                         [n \in names |-> call.result[n].populationRank],
                         call.pop)
            /\ RankTotal(names,
                         [n \in names |-> call.result[n].gdpRank],
                         call.gdp)

\* Three entities ranked, with a tie in population and with the order by
\* GDP differing from the order by population.
C17_Witness ==
    /\ Returned("assignRanks")
    /\ Len(call.keys) = 3
    /\ \E a, b \in KeySet(call.keys) :
          /\ a # b
          /\ call.pop[a] = call.pop[b]
          /\ call.result[a].populationRank < call.result[b].populationRank
          /\ call.result[a].gdpRank > call.result[b].gdpRank

\* C18: generateHistory returns exactly as many points as years were asked
\* for (n >= 1), the last point has the current value passed in, and the
\* years are consecutive and ascending and end at the current year,
\* whatever fluctuations are drawn.
C18_HistoryBoundary ==
    Returned("generateHistory") =>
        LET h == call.result
            n == call.years
        IN  /\ Len(h) = n
            /\ h[n].value = call.currentValue
            /\ h[n].year = CurrentYear
            /\ \A k \in 1..(n - 1) : h[k + 1].year = h[k].year + 1
            /\ \A k \in 1..n : h[k].year = CurrentYear - (n - k)

\* Several years projected back with a fluctuation that changes the result:
\* the earlier values differ from the current one, the last one does not.
C18_Witness ==
    /\ Returned("generateHistory")
    /\ call.years = MaxYears
    /\ call.growthRate = 0
    /\ call.result[1].value # call.currentValue
    /\ call.result[call.years].value = call.currentValue
    /\ call.result[1].year = CurrentYear - call.years + 1

\* The four base stats of a catalog entry
Base(e) == << e.population, e.gdpPerCapita, e.popGrowth, e.gdpGrowth >>

\* The name a build is for
BuildName(b) == b.feats[b.i].properties.ADMIN

\* C19: the generated base stats of a name outside the authoritative set
\* depend only on the sum of the character codes of the name: two builds
\* of the same name, or of names with the same sum, give identical base
\* stats whatever the document, the position in it and the fluctuations
\* drawn for the histories.
C19_SyntheticDeterminism ==
    Returned("entryFor") =>
        LET a == call.first
            b == call.second
        IN  /\ SumSeq(CharCodes(BuildName(a))) = SumSeq(CharCodes(BuildName(b)))
                => Base(call.result[1]) = Base(call.result[2])
            /\ BuildName(a) = "Fiji"
                => Base(call.result[1]) = << 39537508, 27562, 79, -121 >>
            /\ Len(call.result[1].history.population) = HistoryYears
            /\ call.result[1].history.population[HistoryYears].value
                  = call.result[1].population

\* Two builds of Fiji whose histories differ and whose base stats agree.
C19_Witness ==
    /\ Returned("entryFor")
    /\ BuildName(call.first) = "Fiji"
    /\ BuildName(call.second) = "Fiji"
    /\ call.first.seed # call.second.seed
    /\ call.result[1].history # call.result[2].history
    /\ Base(call.result[1]) = Base(call.result[2])

\* The values generateCountryInsight has resolved to and that are still held:
\* by a fetch waiting for its timer, or by the panel.
ResolvedInsights ==
    { f.result : f \in { g \in fetches : g.result # Null } }
        \cup (IF insight # Null THEN { insight } ELSE {})

\* C20: without a credential, and on every failure of the request,
\* generateCountryInsight resolves to the neutral fallback: a non-empty
\* fixed summary, exactly one key factor and the outlook 'Neutral'; without
\* a credential no request is made.
C20_NeutralFallback ==
    /\ \A r \in ResolvedInsights :
          (apiKey = "" \/ r.summary # "Generated summary")
          => /\ r.summary # ""
             /\ Len(r.keyFactors) = 1
             /\ r.outlook = "Neutral"
    /\ apiKey = "" => \A f \in fetches : f.result # Null

\* C21: the catalog is set at most once, by initData; once initData has
\* completed no event (hover, click, mode switch, panel open or close,
\* narrative completion) changes any entity's stats, ranks or history.
C21_CatalogImmutable ==
    /\ [][ data' # data => (initPc = "json" /\ initPc' = "done") ]_vars
    /\ [][ initPc = "done" => (data' = data /\ initPc' = "done") ]_vars
    /\ [](initPc # "done" => data = EmptyCatalog)

\* A catalog of two entities after hovers, clicks, a mode switch and a
\* change of selection.
C21_Witness ==
    /\ initPc = "done"
    /\ Cardinality(DOMAIN data) = 2
    /\ mode # "POPULATION"
    /\ hoverD # Null
    /\ selectedCountry # Null
    /\ \E f \in fetches : ~f.isMounted

\* C22: loading becomes false only in the step in which the second of the
\* two completions of the live fetch happens (the request has settled and
\* the 1200 ms timer has fired, in either order); while the live fetch has
\* only one of them, or none, loading stays true.
C22_LoadingJoin ==
    /\ [][ (loading /\ ~loading')
           => \E f \in fetches :
                 /\ f.isMounted
                 /\ Completes(f)
                 /\ f \notin fetches'
                 /\ insight' # Null ]_vars
    /\ [](\A f \in fetches :
             (f.isMounted /\ (f.result = Null \/ ~f.elapsed)) => loading)
    /\ [][ \A f \in fetches :
             ( /\ f.isMounted
               /\ \/ ~f.elapsed /\ \E r \in Responses : RequestEnds(f, r)
                  \/ f.result = Null /\ TimerFires(f) )
             => loading' ]_vars

\* The timer of the live fetch has fired, its request is still out, and the
\* panel is loading.
C22_Witness ==
    /\ loading
    /\ ~EffectPending
    /\ \E f \in fetches : f.isMounted /\ f.elapsed /\ f.result = Null


\* The stop list in ascending position order and the first adjacent pair
\* of it that encloses v
FirstPair(stops, v) ==
    LET sorted == SortStops(stops, Len(stops))
        i == CHOOSE k \in 1..(Len(sorted) - 1) :
                /\ sorted[k].pos <= v /\ v <= sorted[k + 1].pos
                /\ \A j \in 1..(k - 1) :
                      ~(sorted[j].pos <= v /\ v <= sorted[j + 1].pos)
    IN  <<sorted[i], sorted[i + 1]>>

\* c is the integer nearest to c1 + (num / range) * (c2 - c1), the upper
\* one of the two when the value lies half way
IsRounded(c, c1, c2, num, range) ==
    LET x == c1 * range + num * (c2 - c1)
    IN  -range < 2 * range * c - 2 * x /\ 2 * range * c - 2 * x <= range

Interior(stops, v) == LowestPos(stops) < v /\ v < HighestPos(stops)

\* C23: for a value strictly between the lowest and the highest stop
\* position the result is rgba(r, g, b, 0.95) in which every channel is
\* round(s_i.channel + t * (s_{i+1}.channel - s_i.channel)) over the first
\* adjacent sorted pair enclosing the value, with
\* t = (value - s_i.pos) / (s_{i+1}.pos - s_i.pos); the channel lies in
\* 0..255 and between the channels of the two stops.
C23_Interpolation ==
    (Returned("getGradientColor") /\ Interior(call.stops, call.value)) =>
        LET pair == FirstPair(call.stops, call.value)
            c1 == RgbOf(pair[1].color)
            c2 == RgbOf(pair[2].color)
            num == call.value - pair[1].pos
            range == pair[2].pos - pair[1].pos
        IN  /\ Len(call.result) = 5
            /\ call.result[1] = "rgba"
            /\ call.result[5] = 95
            /\ \A k \in 1..3 :
                  /\ IsRounded(call.result[k + 1], c1[k], c2[k], num, range)
                  /\ call.result[k + 1] \in 0..255
                  /\ Min(c1[k], c2[k]) <= call.result[k + 1]
                  /\ call.result[k + 1] <= Max(c1[k], c2[k])

\* A value strictly inside a pair of stops, not at a stop, whose green
\* channel lies half way between two integers and is rounded up.
C23_Witness ==
    /\ Returned("getGradientColor")
    /\ Interior(call.stops, call.value)
    /\ \A i \in DOMAIN call.stops : call.stops[i].pos # call.value
    /\ LET pair == FirstPair(call.stops, call.value)
           x == RgbOf(pair[1].color)[2] * (pair[2].pos - pair[1].pos)
                  + (call.value - pair[1].pos)
                      * (RgbOf(pair[2].color)[2] - RgbOf(pair[1].color)[2])
       IN  /\ (2 * x) % (2 * (pair[2].pos - pair[1].pos))
                 = pair[2].pos - pair[1].pos
           /\ call.result[3] * (pair[2].pos - pair[1].pos) > x

\* C24: for every stop list of two or more stops, stops sharing a position
\* included, and every value, the pair used for the division has
\* positions that differ whenever the division is reached (the value is
\* above the first sorted position and below the last), and the result is
\* never the NaN colour: it is a stop's colour string or an rgba of
\* channels in 0..255.
C24_NoZeroRange ==
    Returned("getGradientColor") =>
        /\ call.result # NaNColor
        /\ Interior(call.stops, call.value)
              => /\ FirstPair(call.stops, call.value)[2].pos
                       - FirstPair(call.stops, call.value)[1].pos > 0
                 /\ Len(call.result) = 5
                 /\ \A k \in 2..4 : call.result[k] \in 0..255
        /\ ~Interior(call.stops, call.value)
              => \E i \in DOMAIN call.stops :
                     call.result = call.stops[i].color

\* A list with two stops at one position strictly inside it, and the
\* value at that position.
C24_Witness ==
    /\ Returned("getGradientColor")
    /\ Interior(call.stops, call.value)
    /\ \E i, j \in DOMAIN call.stops :
          /\ i # j
          /\ call.stops[i].pos = call.value
          /\ call.stops[j].pos = call.value
    /\ Len(call.result) = 5

\* Six hex digits after an optional leading '#'
SixHexDigits(hex) ==
    LET body == IF Len(hex) >= 1 /\ hex[1] = "#"
                THEN SubSeq(hex, 2, Len(hex)) ELSE hex
    IN  /\ Len(body) = 6
        /\ \A i \in 1..6 :
              body[i] \in { "0", "1", "2", "3", "4", "5", "6", "7", "8", "9",
                            "a", "b", "c", "d", "e", "f",
                            "A", "B", "C", "D", "E", "F" }

\* C25: hexToRgb returns {r: 0, g: 0, b: 0} for every string that is not
\* six hex digits with an optional leading '#', and an interpolation
\* between such a stop and a stop with a valid colour returns an rgba whose
\* channels lie in 0..255, between 0 and the channel of the valid stop.
C25_MalformedIsBlack ==
    /\ (Returned("hexToRgb") /\ ~SixHexDigits(call.hex))
          => call.result = [r |-> 0, g |-> 0, b |-> 0]
    /\ (Returned("getGradientColor") /\ Interior(call.stops, call.value))
          => LET pair == FirstPair(call.stops, call.value)
             IN  \A m, w \in {1, 2} :
                    ( /\ ~SixHexDigits(pair[m].color)
                      /\ SixHexDigits(pair[w].color) )
                    => /\ Len(call.result) = 5
                       /\ \A k \in 1..3 :
                             /\ call.result[k + 1] \in 0..255
                             /\ call.result[k + 1] <= RgbOf(pair[w].color)[k]
                             /\ IsRounded(call.result[k + 1],
                                          IF m = 1 THEN 0
                                          ELSE RgbOf(pair[w].color)[k],
                                          IF m = 2 THEN 0
                                          ELSE RgbOf(pair[w].color)[k],
                                          call.value - pair[1].pos,
                                          pair[2].pos - pair[1].pos)

\* A value strictly between a stop whose colour is '#fff' and a stop with
\* a valid colour, returned as a colour that is not black.
C25_Witness ==
    /\ Returned("getGradientColor")
    /\ Interior(call.stops, call.value)
    /\ \E m, w \in {1, 2} :
          /\ FirstPair(call.stops, call.value)[m].color = <<"#", "f", "f", "f">>
          /\ SixHexDigits(FirstPair(call.stops, call.value)[w].color)
    /\ \A i \in DOMAIN call.stops : call.stops[i].pos # call.value
    /\ call.result[2] > 0


\* The polygons of the surface whose name has no record in the catalog
Unrecorded == { d \in Polygons : d.properties.ADMIN \notin DOMAIN data }

\* C26: whenever an entity is selected, its name is a key of the catalog
\* and its stats are the catalog's record for that name; a click on a
\* polygon whose name has no record leaves the selection as it was.
C26_SelectionFromCatalog ==
    /\ [](selectedCountry # Null
            => /\ selectedCountry.name \in DOMAIN data
               /\ selectedCountry.stats = data[selectedCountry.name])
    /\ [][ \A feat \in Unrecorded :
              onPolygonClick(feat) => selectedCountry' = selectedCountry ]_vars
    /\ [][ (\E feat \in Unrecorded : GlobeView = "surface" /\ ~EffectPending)
              => \A feat \in Unrecorded : ENABLED onPolygonClick(feat) ]_vars

\* An entity selected in the list view after another selection was given
\* up, with a polygon hovered before the surface failed.
C26_Witness ==
    /\ selectedCountry # Null
    /\ GlobeView = "fallback"
    /\ hoverD # Null
    /\ Cardinality(DOMAIN data) >= 2
    /\ \E f \in fetches : ~f.isMounted
    /\ ~EffectPending


\* C27: whenever the detail panel shows a narrative (loading is false and
\* insight is not null), the narrative is the one the fetch started for the
\* displayed countryName produced, in every rendered state, the render
\* between a change of selection and the run of the effect included.
C27_NarrativeMatchesSelection ==
    (PanelMounted /\ ~loading /\ insight # Null)
        => insight.subject = selectedCountry.name


\* A click on an entity that has a record in the catalog, in either view
RecordedClick ==
    \/ \E feat \in Polygons \ Unrecorded : onPolygonClick(feat)
    \/ \E name \in FallbackEntries : FallbackClick(name)

\* C28: the selection changes only by a click on an entity with a catalog
\* record or by closing the detail panel; hover events and mode switches
\* leave the selection unchanged; clicks and panel closes leave the hovered
\* polygon and the mode unchanged; the detail panel is mounted exactly when
\* an entity is selected.
C28_SelectionFrame ==
    /\ [][ selectedCountry' # selectedCountry
              => (RecordedClick \/ ClosePanel) ]_vars
    /\ [][ ( \/ \E d \in Polygons \cup {Null} : onPolygonHover(d)
             \/ \E m \in Modes : SetMode(m) )
              => selectedCountry' = selectedCountry ]_vars
    /\ [][ ( \/ \E feat \in Polygons : onPolygonClick(feat)
             \/ \E name \in FallbackEntries : FallbackClick(name)
             \/ ClosePanel )
              => (hoverD' = hoverD /\ mode' = mode) ]_vars
    /\ [](PanelMounted <=> selectedCountry # Null)

\* The panel closed on a selection while a polygon is hovered and a mode
\* other than the first is shown: the fetch of the closed panel is still out.
C28_Witness ==
    /\ selectedCountry = Null
    /\ \E f \in fetches : ~f.isMounted
    /\ hoverD # Null
    /\ mode # "POPULATION"
    /\ GlobeView = "surface"

=============================================================================
